---- MODULE Spec2Model ----
(***************************************************************************)
(* Functional-Tetris: the game-state transition engine (state.ts, util.ts, *)
(* constants.ts) as a state machine.  The snapshot `s` is the State record *)
(* threaded through scan() in main.ts; every action of the model is one    *)
(* Action.perform applied to it.                                           *)
(*                                                                         *)
(* Arrays are 0-based in the source and 1-based here: cells[i] of the      *)
(* source is cells[i+1] of the model, rotation r selects entry r+1 of a    *)
(* rotation table.  Cell ids "block n" are modelled by the number n.       *)
(***************************************************************************)
EXTENDS Integers, Sequences, FiniteSets, TLC

VARIABLES s, game, prev, last, steps, crashed, keysDown, keyStates, event,
          emitted, folds, restartSubs

vars ==
  <<s, game, prev, last, steps, crashed, keysDown, keyStates, event, emitted,
    folds, restartSubs>>

\* the keyboard and the streams built on it (main.ts 58-131)
keyVars == <<keysDown, keyStates, event, emitted>>

\* the subscriptions of state$ and of the restart listener (main.ts 134-205)
subVars == <<folds, restartSubs>>

(***************************************************************************)
(* constants.ts                                                            *)
(***************************************************************************)
CANVAS_WIDTH == 200
CANVAS_HEIGHT == 400
PREVIEW_WIDTH == 160
PREVIEW_HEIGHT == 80
GRID_WIDTH == 10
GRID_HEIGHT == 20
WIDTH == CANVAS_WIDTH \div GRID_WIDTH
HEIGHT == CANVAS_HEIGHT \div GRID_HEIGHT

P(px, py) == [x |-> px, y |-> py]

TetroShapes == <<"I", "T", "J", "L", "O", "S", "Z">>

TetroColorMap ==
  [I |-> "cyan", T |-> "purple", J |-> "blue", L |-> "orange",
   O |-> "yellow", S |-> "lime", Z |-> "red"]

TetroStartPosMap ==
  [I |-> << <<P(-1, 0), P(0, 0), P(1, 0), P(2, 0)>>,
            <<P(1, -1), P(1, 0), P(1, 1), P(1, 2)>>,
            <<P(2, 1), P(1, 1), P(0, 1), P(-1, 1)>>,
            <<P(0, 2), P(0, 1), P(0, 0), P(0, -1)>> >>,
   T |-> << <<P(-1, 0), P(0, 0), P(0, -1), P(1, 0)>>,
            <<P(0, -1), P(0, 0), P(1, 0), P(0, 1)>>,
            <<P(1, 0), P(0, 0), P(0, 1), P(-1, 0)>>,
            <<P(0, 1), P(0, 0), P(-1, 0), P(0, -1)>> >>,
   S |-> << <<P(-1, 0), P(0, 0), P(0, -1), P(1, -1)>>,
            <<P(0, -1), P(0, 0), P(1, 0), P(1, 1)>>,
            <<P(1, 0), P(0, 0), P(0, 1), P(-1, 1)>>,
            <<P(0, 1), P(0, 0), P(-1, 0), P(-1, -1)>> >>,
   Z |-> << <<P(-1, -1), P(0, 0), P(0, -1), P(1, 0)>>,
            <<P(1, -1), P(0, 0), P(1, 0), P(0, 1)>>,
            <<P(1, 1), P(0, 0), P(0, 1), P(-1, 0)>>,
            <<P(-1, 1), P(0, 0), P(-1, 0), P(0, -1)>> >>,
   O |-> << <<P(0, -1), P(0, 0), P(1, -1), P(1, 0)>> >>,
   J |-> << <<P(-1, -1), P(0, 0), P(-1, 0), P(1, 0)>>,
            <<P(1, -1), P(0, 0), P(0, -1), P(0, 1)>>,
            <<P(1, 1), P(0, 0), P(1, 0), P(-1, 0)>>,
            <<P(-1, 1), P(0, 0), P(0, 1), P(0, -1)>> >>,
   L |-> << <<P(1, -1), P(0, 0), P(-1, 0), P(1, 0)>>,
            <<P(1, 1), P(0, 0), P(0, -1), P(0, 1)>>,
            <<P(-1, 1), P(0, 0), P(1, 0), P(-1, 0)>>,
            <<P(-1, -1), P(0, 0), P(0, 1), P(0, -1)>> >> ]

JLTSZWallKickData ==
  << <<P(0, 0), P(-1, 0), P(-1, -1), P(0, 2), P(-1, 2)>>,
     <<P(0, 0), P(-1, 0), P(-1, 1), P(0, -2), P(-1, -2)>>,
     <<P(0, 0), P(1, 0), P(1, -1), P(0, 2), P(1, 2)>>,
     <<P(0, 0), P(1, 0), P(1, 1), P(0, -2), P(1, -2)>> >>

IWallKickData ==
  << <<P(0, 0), P(1, 0), P(-2, 0), P(1, -2), P(-2, 1)>>,
     <<P(0, 0), P(-2, 0), P(1, 0), P(-2, -1), P(1, 2)>>,
     <<P(0, 0), P(-1, 0), P(2, 0), P(-1, 2), P(2, -1)>>,
     <<P(0, 0), P(2, 0), P(-1, 0), P(2, 1), P(-1, -2)>> >>

OWallKickData == << <<P(0, 0)>> >>

PieceWallKickMap ==
  [I |-> IWallKickData, J |-> JLTSZWallKickData, L |-> JLTSZWallKickData,
   O |-> OWallKickData, S |-> JLTSZWallKickData, T |-> JLTSZWallKickData,
   Z |-> JLTSZWallKickData]

(***************************************************************************)
(* util.ts: RNG.  The source evaluates hash in IEEE-754 doubles: a * seed  *)
(* is rounded to 53 significant bits, c is added, the sum is rounded       *)
(* again, and only then reduced modulo m = 2^31.  For a seed in            *)
(* [RoundFrom[k], RoundFrom[k+1]) the product lies in [2^(52+k), 2^(53+k)) *)
(* and both roundings are to the nearest multiple of 2^k, ties to even.    *)
(* Every intermediate value below stays under 2^31, seeds are residues     *)
(* 0 .. m-1.                                                               *)
(***************************************************************************)
RNG_mLess1 == 2147483647
RNG_a == 1103515245
RNG_c == 12345

Pow2(k) == IF k = 0 THEN 1 ELSE IF k = 1 THEN 2 ELSE IF k = 2 THEN 4
           ELSE IF k = 3 THEN 8 ELSE IF k = 4 THEN 16 ELSE IF k = 5 THEN 32
           ELSE IF k = 6 THEN 64 ELSE IF k = 7 THEN 128
           ELSE IF k = 8 THEN 256 ELSE 512

\* RoundFrom[k] = ceiling(2^(52+k) / a): the least seed whose product a * seed
\* needs 53 + k bits.
RoundFrom ==
  <<8162279, 16324558, 32649116, 65298232, 130596464, 261192927, 522385853,
    1044771706, 2089543412>>

LostBits(seed) == Cardinality({k \in 1..Len(RoundFrom) : seed >= RoundFrom[k]})

\* (a * seed) mod 2^31, by 16-bit halves of a and of seed
MulMod(seed) ==
  LET aH == RNG_a \div 65536
      aL == RNG_a % 65536
      sH == seed \div 65536
      sL == seed % 65536
      low == aL * sL
      mid == (aH * sL + aL * sH) % 32768
  IN  (((low \div 65536) + mid) % 32768) * 65536 + (low % 65536)

\* (v + d) mod 2^31 for residues v and 0 <= d < 2^31
AddMod(v, d) ==
  IF v > RNG_mLess1 - d THEN (v - (RNG_mLess1 - d)) - 1 ELSE v + d

\* round-to-nearest-even of a value to a multiple of 2^k, on its residue mod 2^31
RoundMod(v, k) ==
  LET g == Pow2(k)
      r == v % g
      base == v - r
      up == 2 * r > g \/ (2 * r = g /\ (base \div g) % 2 = 1)
  IN  IF up THEN AddMod(base, g) ELSE base

\* the congruential step in exact integer arithmetic
hashExact(seed) == AddMod(MulMod(seed), RNG_c)

hash(seed) ==
  LET k == LostBits(seed)
  IN  RoundMod(AddMod(RoundMod(MulMod(seed), k), RNG_c), k)

\* floor((h / (m - 1)) * 7); m - 1 is prime, so the quotient is an integer only
\* for h = 0 and h = m - 1 and the double rounding never crosses one.
scale(h) == IF h = 0 THEN 0 ELSE (h - 1) \div (RNG_mLess1 \div 7)

(***************************************************************************)
(* type.ts / util.ts: cells, tetrominoes and the state snapshot.  An       *)
(* optional field of State that is undefined holds Absent.                 *)
(***************************************************************************)
Absent == [absent |-> TRUE]

HasTetro(t) == t # Absent

createBlock(x, y, blockId, color) ==
  [x |-> x, y |-> y, id |-> blockId, color |-> color]

\* Array.prototype.filter(...).length
Count(seq, Test(_)) == Len(SelectSeq(seq, Test))

\* Array.prototype.map
Map(seq, F(_)) == [i \in 1..Len(seq) |-> F(seq[i])]

initialState(initialSeed) ==
  [blocks |-> <<>>, blockCount |-> 0, lineClears |-> 0, level |-> 0,
   points |-> 0, highscore |-> 0, clearedBlocks |-> <<>>, gameEnd |-> FALSE,
   seed |-> initialSeed, canHoldAgain |-> TRUE, changeInLevel |-> FALSE,
   currentBlock |-> Absent, nextBlock |-> Absent, heldBlock |-> Absent,
   ghostBlock |-> Absent]

hasBlocksAround(cells, st, offset, direction) ==
  LET Free(c) ==
        LET xPos == IF direction = "x" THEN c.x + offset ELSE c.x
            yPos == IF direction = "y" THEN c.y + offset ELSE c.y
            Same(b) == xPos = b.x /\ yPos = b.y
        IN  Count(st.blocks, Same) = 0
  IN  Count(cells, Free) # Len(cells)

\* lets a cell reach the column left of the board
hasBoundaryAroundInclusive(cells, st, offset, direction) ==
  LET conditionCheck(c) ==
        IF direction = "x"
        THEN c.x + offset >= 0 - WIDTH /\ c.x + offset < CANVAS_WIDTH
        ELSE c.y + offset < CANVAS_HEIGHT
  IN  Count(cells, conditionCheck) # Len(cells)

hasBoundaryAround(cells, st, offset, direction) ==
  LET conditionCheck(c) ==
        IF direction = "x"
        THEN c.x + offset > 0 - WIDTH /\ c.x + offset < CANVAS_WIDTH
        ELSE c.y + offset < CANVAS_HEIGHT
  IN  Count(cells, conditionCheck) # Len(cells)

boundaryX(cells, st, offset) ==
  IF ~HasTetro(st.currentBlock) \/ st.currentBlock.collided THEN cells
  ELSE IF hasBlocksAround(cells, st, offset, "x")
          \/ hasBoundaryAround(cells, st, offset, "x")
       THEN cells
       ELSE LET Shift(c) == [c EXCEPT !.x = c.x + offset] IN Map(cells, Shift)

boundaryY(cells, st, offset) ==
  IF ~HasTetro(st.currentBlock) \/ st.currentBlock.collided THEN cells
  ELSE IF hasBlocksAround(cells, st, offset, "y")
          \/ hasBoundaryAround(cells, st, offset, "y")
       THEN cells
       ELSE LET Shift(c) == [c EXCEPT !.y = c.y + offset] IN Map(cells, Shift)

\* given 2 points check if one is on top the other
itemCollided(x1, y1, x2, y2) == x1 = x2 /\ y1 = y2 - HEIGHT

\* Reads st.currentBlock!.cells: the caller guarantees a current block.
blockAndBoundaryCollided(st) ==
  LET OnFloor(c) == itemCollided(c.x, c.y, c.x, CANVAS_HEIGHT)
  IN  Count(st.currentBlock.cells, OnFloor) > 0

blockAndBlocksCollided(st) ==
  LET OnBlock(c) ==
        LET Under(b) == itemCollided(c.x, c.y, b.x, b.y)
        IN  Count(st.blocks, Under) > 0
  IN  Count(st.currentBlock.cells, OnBlock) > 0

\* settles a piece on the floor only
collisionConditionFloorOnly(st) == blockAndBoundaryCollided(st)

collisionCondition(st) ==
  blockAndBoundaryCollided(st) \/ blockAndBlocksCollided(st)

settle(st, collided) ==
  [st EXCEPT
     !.currentBlock = [@ EXCEPT !.collided = collided],
     !.blocks = IF collided THEN @ \o st.currentBlock.cells ELSE @,
     !.seed = IF collided THEN hash(@) ELSE @,
     !.canHoldAgain = IF collided THEN TRUE ELSE @]

collisionDetection(st) == settle(st, collisionCondition(st))

RECURSIVE UniqueRows(_, _)
\* the reduce of lineClearCheck that keeps the first cell of every y value
UniqueRows(cells, acc) ==
  IF cells = <<>> THEN acc
  ELSE LET cell == Head(cells)
           SameRow(c) == c.y = cell.y
       IN  UniqueRows(Tail(cells),
                      IF Count(acc, SameRow) > 0 THEN acc ELSE Append(acc, cell))

\* counts one clear per Tick, however many rows it removes
noOfLinesClearedPerEvent(AllBlockInFullLine) ==
  IF Len(AllBlockInFullLine) > 0 THEN 1 ELSE 0

noOfLinesCleared(AllBlockInFullLine) == Len(AllBlockInFullLine) \div GRID_WIDTH

\* derives the level from the total before this clear
levelBeforeClear(lineClears, linesCleared) == lineClears \div 10

\* level of lineClearCheck
levelAfterClear(lineClears, linesCleared) == (lineClears + linesCleared) \div 10

\* keeps the lower of the two values
highscoreInverted(highscore, points) ==
  IF highscore < points THEN highscore ELSE points

\* highscore of the snapshot lineClearCheck returns
highscoreAfterClear(highscore, points) ==
  IF highscore < points THEN points ELSE highscore

lineClearCheck(state) ==
  LET block == state.currentBlock
  IN
  IF ~HasTetro(block) \/ ~block.collided
  THEN [state EXCEPT !.changeInLevel = FALSE]
  ELSE
  LET MakesLine(c) ==
        LET SameRow(b) == b.y = c.y
        IN  Count(state.blocks, SameRow) = GRID_WIDTH
      tetroBlockMakingLine == SelectSeq(block.cells, MakesLine)
      blockMakingFullLine == UniqueRows(tetroBlockMakingLine, <<>>)
      GettingCleared(b) ==
        LET SameRow(f) == f.y = b.y
        IN  Count(blockMakingFullLine, SameRow) > 0
      AllBlockInFullLine == SelectSeq(state.blocks, GettingCleared)
      AboveSome(b) ==
        LET Lower(f) == b.y < f.y
        IN  Count(blockMakingFullLine, Lower) > 0
      KeptAbove(b) == AboveSome(b) /\ ~GettingCleared(b)
      Fall(b) ==
        LET Lower(f) == b.y < f.y
            lineClearNoBelow == Count(blockMakingFullLine, Lower)
        IN  [b EXCEPT !.y = b.y + lineClearNoBelow * HEIGHT]
      blocksAbove == Map(SelectSeq(state.blocks, KeptAbove), Fall)
      KeptBelow(b) ==
        LET Higher(f) == b.y > f.y
            SameId(c) == b.id = c.id
            isBlockInBlocksAbove == Count(blocksAbove, SameId) > 0
        IN  /\ Count(blockMakingFullLine, Higher) > 0
            /\ ~(GettingCleared(b) \/ isBlockInBlocksAbove)
      blocksBelow == SelectSeq(state.blocks, KeptBelow)
      linesCleared == noOfLinesCleared(AllBlockInFullLine)
      points == state.points + linesCleared * 100
      level == levelAfterClear(state.lineClears, linesCleared)
  IN
  IF Len(AllBlockInFullLine) = 0
  THEN [state EXCEPT !.changeInLevel = FALSE]
  ELSE [state EXCEPT
          !.blocks = blocksAbove \o blocksBelow,
          !.lineClears = state.lineClears + linesCleared,
          !.points = points,
          !.clearedBlocks = AllBlockInFullLine,
          !.highscore = highscoreAfterClear(state.highscore, points),
          !.level = level,
          !.changeInLevel = (state.level # level)]

(***************************************************************************)
(* state.ts                                                                *)
(***************************************************************************)
startPosY(checkValidBlockSpawn, isPreview, y) ==
  IF checkValidBlockSpawn \/ isPreview THEN y ELSE 0

createTetrominoes(x, y, blockCount, seed, isPreview, state) ==
  LET randomNumber == scale(seed)
      chosenShape == TetroShapes[randomNumber + 1]
      shapeMap == TetroStartPosMap[chosenShape][1]
      tetroColor == TetroColorMap[chosenShape]
      startPosX == x
      Unoccupied(p) ==
        LET posX == startPosX + p.x * WIDTH
            posY == HEIGHT + p.y * HEIGHT
            Same(b) == posX = b.x /\ posY = b.y
        IN  Count(state.blocks, Same) = 0
      checkValidBlockSpawn == Count(shapeMap, Unoccupied) = 4
      posY == startPosY(checkValidBlockSpawn, isPreview, y)
      tetro == [index \in 1..Len(shapeMap) |->
                  createBlock(startPosX + shapeMap[index].x * WIDTH,
                              posY + shapeMap[index].y * HEIGHT,
                              blockCount + (index - 1), tetroColor)]
      IsPivot(c) == c.x = startPosX /\ c.y = posY
      findPivot == Head(SelectSeq(tetro, IsPivot))
  IN  [cells |-> tetro, originBlock |-> findPivot, collided |-> FALSE,
       rotation |-> 0, shape |-> chosenShape, seed |-> seed,
       blockStartCount |-> blockCount]

Min(S) == CHOOSE v \in S : \A w \in S : v <= w

RECURSIVE LowestOf(_, _, _)
\* the reduce of Tick.perform over the indices holding the minimum location:
\* acc = [index, y], replaced unless acc.y > cells[val].y (indices 0-based)
LowestOf(indices, cells, acc) ==
  IF indices = <<>> THEN acc
  ELSE LET val == Head(indices)
       IN  LowestOf(Tail(indices), cells,
                    IF acc[2] > cells[val + 1].y THEN acc
                    ELSE <<val, cells[val + 1].y>>)

mapGhostTetro(cells, block, offset) ==
  [index \in 1..Len(cells) |->
     [cells[index] EXCEPT !.x = block.cells[index].x,
                          !.y = block.cells[index].y + offset,
                          !.color = "grey"]]

\* looks at the pivot cell of the piece only
isPivotSpawningOnOtherBlocks(block, state) ==
  LET Same(b) == block.originBlock.x = b.x /\ block.originBlock.y = b.y
  IN  Count(state.blocks, Same) > 0

isBlockSpawningOnOtherBlocks(block, state) ==
  LET OnBlock(c) ==
        LET Same(b) == c.x = b.x /\ c.y = b.y
        IN  Count(state.blocks, Same) > 0
  IN  Count(block.cells, OnBlock) > 0

\* a Tick that also lets the falling piece down by one cell
tickBlockFalling(state) ==
  IF ~HasTetro(state.currentBlock) \/ state.currentBlock.collided
  THEN createTetrominoes(CANVAS_WIDTH \div 2 - WIDTH, HEIGHT,
                         state.blockCount, state.seed, FALSE, state)
  ELSE [state.currentBlock EXCEPT
          !.cells = boundaryY(state.currentBlock.cells, state, HEIGHT)]

\* the piece of the returned snapshot: a spawned one, or the current one
tickBlock(state) ==
  IF ~HasTetro(state.currentBlock) \/ state.currentBlock.collided
  THEN createTetrominoes(CANVAS_WIDTH \div 2 - WIDTH, HEIGHT,
                         state.blockCount, state.seed, FALSE, state)
  ELSE state.currentBlock

\* how far the piece can fall: yOffset of Tick.perform
tickYOffset(block, state) ==
  LET topYForBlock(c) ==
        Min({400} \cup {state.blocks[i].y : i \in
               {j \in 1..Len(state.blocks) :
                  c.x = state.blocks[j].x /\ state.blocks[j].y > c.y}})
        - HEIGHT
      ghostBlockYLocation == Map(block.cells, topYForBlock)
      getMinY == Min({ghostBlockYLocation[i] : i \in 1..Len(ghostBlockYLocation)})
      IsMin(i) == ghostBlockYLocation[i + 1] = getMinY
      getIndexOfLocation ==
        SelectSeq([i \in 1..Len(ghostBlockYLocation) |-> i - 1], IsMin)
      yValueIndex == LowestOf(getIndexOfLocation, block.cells, <<0, 0>>)
  IN  getMinY - block.cells[yValueIndex[1] + 1].y

\* the test of the ghost fallback: the raw ghost cells overlap a cell of blocks
\* or reach below the board
ghostCollides(ghostCells, st) ==
  hasBlocksAround(ghostCells, st, 0, "x")
    \/ hasBoundaryAround(ghostCells, st, 0, "y")

\* ghostBlock of Tick.perform; st is the snapshot the Tick was applied to and
\* state the one after line clearing
tickGhostBlock(st, state, block, yOffset) ==
  LET ghostTetroBlockCount ==
        IF HasTetro(state.ghostBlock) THEN state.ghostBlock.blockStartCount
        ELSE state.blockCount + 4
      ghostTetro ==
        createTetrominoes(0, 0, ghostTetroBlockCount, block.seed, TRUE, state)
      ghostCells == mapGhostTetro(ghostTetro.cells, block, yOffset)
  IN  [ghostTetro EXCEPT !.cells =
         IF ghostCollides(ghostCells, st)
         THEN mapGhostTetro(ghostCells, block, yOffset - HEIGHT)
         ELSE ghostCells]

tickNextBlock(state) ==
  LET nextTetroBlockCount ==
        IF HasTetro(state.ghostBlock) THEN state.blockCount + 4
        ELSE state.blockCount + 8
  IN  IF ~HasTetro(state.nextBlock) \/ state.currentBlock.collided
      THEN createTetrominoes(PREVIEW_WIDTH \div 2, PREVIEW_HEIGHT \div 2,
                             nextTetroBlockCount, hash(state.seed), TRUE, state)
      ELSE state.nextBlock

tickBlockCount(state) ==
  IF ~HasTetro(state.currentBlock) \/ state.currentBlock.collided
  THEN IF HasTetro(state.ghostBlock) THEN state.blockCount + 4
       ELSE state.blockCount + 8
  ELSE state.blockCount

Tick(st) ==
  LET Return(state, block) ==
        [state EXCEPT
           !.currentBlock = block,
           !.nextBlock = tickNextBlock(state),
           !.ghostBlock =
             tickGhostBlock(st, state, block, tickYOffset(block, state)),
           !.blockCount = tickBlockCount(state),
           !.gameEnd = isBlockSpawningOnOtherBlocks(block, state)]
      Spawn(state) == Return(state, tickBlock(state))
  IN  Spawn(lineClearCheck(st))

Move(st, direction, offset) ==
  IF ~HasTetro(st.currentBlock) THEN st
  ELSE LET updatedCells ==
             IF direction = "x" THEN boundaryX(st.currentBlock.cells, st, offset)
             ELSE boundaryY(st.currentBlock.cells, st, offset)
       IN  [st EXCEPT !.currentBlock =
              [@ EXCEPT !.cells = updatedCells, !.originBlock = updatedCells[2]]]

Collision(st) == collisionDetection(st)

\* adds the table's y offset without negating it
newOffsetBlockUnflipped(blockAfterRotation, k) ==
  LET Off(c) == [c EXCEPT !.x = c.x + k.x * WIDTH, !.y = c.y + k.y * HEIGHT]
  IN  Map(blockAfterRotation, Off)

\* the rotated cells displaced by the wall-kick candidate k
newOffsetBlock(blockAfterRotation, k) ==
  LET Off(c) == [c EXCEPT !.x = c.x + k.x * WIDTH,
                          !.y = c.y + (-k.y) * HEIGHT]
  IN  Map(blockAfterRotation, Off)

Rotate(st) ==
  IF ~HasTetro(st.currentBlock) THEN st
  ELSE
  LET cur == st.currentBlock
      currentRotation == (cur.rotation + 1) % Len(TetroStartPosMap[cur.shape])
      getRotationMap == TetroStartPosMap[cur.shape][currentRotation + 1]
      centralRotationBlock == cur.originBlock
      getPreviousRotationBlock == TetroStartPosMap[cur.shape][cur.rotation + 1]
      relativeToOriginXOffset == 0 - getPreviousRotationBlock[2].x
      relativeToOriginYOffset == 0 - getPreviousRotationBlock[2].y
      blockAfterRotation ==
        [index \in 1..Len(cur.cells) |->
           createBlock(
             centralRotationBlock.x
               + (getRotationMap[index].x + relativeToOriginXOffset) * WIDTH,
             centralRotationBlock.y
               + (getRotationMap[index].y + relativeToOriginYOffset) * HEIGHT,
             cur.cells[index].id, cur.cells[index].color)]
      checkAllCollision(cells) ==
        \/ hasBlocksAround(cells, st, 0, "x")
        \/ hasBoundaryAround(cells, st, 0, "x")
        \/ hasBoundaryAround(cells, st, 0, "y")
      Kicked(k) == newOffsetBlock(blockAfterRotation, k)
      Passes(k) == ~checkAllCollision(Kicked(k))
      allWallKickPossibility ==
        SelectSeq(PieceWallKickMap[cur.shape][currentRotation + 1], Passes)
      blockAfterWallKick == Kicked(allWallKickPossibility[1])
  IN
  IF ~checkAllCollision(blockAfterRotation)
  THEN [st EXCEPT !.currentBlock =
          [@ EXCEPT !.rotation = currentRotation,
                    !.cells = blockAfterRotation,
                    !.originBlock = blockAfterRotation[2]]]
  ELSE IF Len(allWallKickPossibility) = 0 THEN st
  ELSE [st EXCEPT !.currentBlock =
          [@ EXCEPT !.rotation = currentRotation,
                    !.cells = blockAfterWallKick,
                    !.originBlock = blockAfterWallKick[2]]]

\* forgets the canHoldAgain flag
holdRejectedIgnoringFlag(st) ==
  ~HasTetro(st.currentBlock) \/ st.currentBlock.collided

holdRejected(st) ==
  ~HasTetro(st.currentBlock) \/ st.currentBlock.collided \/ ~st.canHoldAgain

\* advances the seed on every hold, swap or not
seedAfterHoldAlwaysHashed(st) == hash(st.seed)

seedAfterHold(st) == IF HasTetro(st.heldBlock) THEN st.seed ELSE hash(st.seed)

\* draws the new preview from the seed hashed once
nextBlockAfterHoldHashedOnce(st) ==
  IF HasTetro(st.heldBlock) THEN st.nextBlock
  ELSE createTetrominoes(PREVIEW_WIDTH \div 2, PREVIEW_HEIGHT \div 2,
                         st.blockCount + 4, hash(st.seed), TRUE, st)

nextBlockAfterHold(st) ==
  IF HasTetro(st.heldBlock) THEN st.nextBlock
  ELSE createTetrominoes(PREVIEW_WIDTH \div 2, PREVIEW_HEIGHT \div 2,
                         st.blockCount + 4, hash(hash(st.seed)), TRUE, st)

Hold(st) ==
  IF holdRejected(st) THEN st
  ELSE
  LET held == HasTetro(st.heldBlock)
      currentBlock ==
        IF held
        THEN createTetrominoes(CANVAS_WIDTH \div 2 - WIDTH, HEIGHT,
                               st.heldBlock.blockStartCount, st.heldBlock.seed,
                               FALSE, st)
        ELSE createTetrominoes(CANVAS_WIDTH \div 2 - WIDTH, HEIGHT,
                               st.nextBlock.blockStartCount, st.nextBlock.seed,
                               FALSE, st)
      heldBlock ==
        createTetrominoes(PREVIEW_WIDTH \div 2, PREVIEW_HEIGHT \div 2,
                          st.currentBlock.blockStartCount, st.currentBlock.seed,
                          TRUE, st)
  IN  [st EXCEPT !.currentBlock = currentBlock,
                 !.nextBlock = nextBlockAfterHold(st),
                 !.heldBlock = heldBlock,
                 !.blockCount = IF held THEN @ ELSE @ + 4,
                 !.seed = seedAfterHold(st),
                 !.canHoldAgain = FALSE]

\* takes the row of the ghost cell and keeps the column of the piece
droppedCellStraightDown(st) ==
  [index \in 1..Len(st.currentBlock.cells) |->
     [st.currentBlock.cells[index] EXCEPT !.y = st.ghostBlock.cells[index].y]]

droppedCell(st) ==
  [index \in 1..Len(st.currentBlock.cells) |->
     [st.currentBlock.cells[index] EXCEPT
        !.x = st.ghostBlock.cells[index].x,
        !.y = st.ghostBlock.cells[index].y]]

Drop(st) ==
  IF ~HasTetro(st.currentBlock) \/ st.currentBlock.collided THEN st
  ELSE [st EXCEPT !.currentBlock =
                    [@ EXCEPT !.cells = droppedCell(st), !.collided = TRUE],
                  !.canHoldAgain = TRUE,
                  !.blocks = @ \o droppedCell(st),
                  !.seed = hash(@)]

(***************************************************************************)
(* main.ts: the fold state$ = actions$.pipe(scan(action.perform)).  An     *)
(* action is named by its key: keyToActionMap for the three Move keys,     *)
(* Rotate, Hold, Drop, and the two timers Tick and Collision.              *)
(***************************************************************************)
Actions ==
  {"Tick", "ArrowLeft", "ArrowRight", "ArrowDown", "Rotate", "Hold", "Drop",
   "Collision"}

\* action.perform(state); Collision throws on a state without a current block
Throws(a, st) == a = "Collision" /\ ~HasTetro(st.currentBlock)

perform(a, st) ==
  CASE a = "Tick" -> Tick(st)
    [] a = "ArrowLeft" -> Move(st, "x", -WIDTH)
    [] a = "ArrowRight" -> Move(st, "x", WIDTH)
    [] a = "ArrowDown" -> Move(st, "y", HEIGHT)
    [] a = "Rotate" -> Rotate(st)
    [] a = "Hold" -> Hold(st)
    [] a = "Drop" -> Drop(st)
    [] a = "Collision" -> Collision(st)

RECURSIVE scanRange(_, _, _, _)
\* the fold over script[lo..hi], split in halves to keep the evaluation
\* shallow (the test forces the intermediate snapshot before the fold goes on)
scanRange(st, script, lo, hi) ==
  IF lo > hi THEN st
  ELSE IF lo = hi THEN perform(script[lo], st)
  ELSE LET mid == (lo + hi) \div 2
           acc == scanRange(st, script, lo, mid)
       IN  IF acc.blockCount >= 0 THEN scanRange(acc, script, mid + 1, hi)
           ELSE acc

scan(st, script) == scanRange(st, script, 1, Len(script))

(***************************************************************************)
(* The state machine.  A behaviour starts from the snapshot reached by one *)
(* of the Scenarios (a start seed and a prefix of actions folded from      *)
(* initialState) and applies up to MaxSteps further actions in any order.  *)
(* `game` is the snapshot the running game was started with (the argument *)
(* of startGame), `last` is the action applied last and `prev` the         *)
(* snapshot it was applied to, `crashed` records that perform threw (the   *)
(* fold then ends),                                                        *)
(* and the subscriber of main.ts unsubscribes from the fold as soon as it  *)
(* sees gameEnd.                                                           *)
(***************************************************************************)
MaxSteps == 6

\* initialSeed = RNG.hash(new Date().getTime()): the start seeds are the hashes
\* of the millisecond timestamps 1693000000014, 1693000000053, 1693000000162,
\* 1693000000001, 1693000000007 and 1693000000000.  Rows are counted from the floor, columns
\* from the left.
\*   Fresh      the initial state, before the first Tick
\*   LineReady  an I piece upright in column 10, one row above its rest; row 2
\*              lacks only column 10, row 1 lacks columns 9 and 10
\*   PairReady  an I piece upright in column 10, one row above its rest; rows
\*              1 and 2 lack only column 10, column 1 holds two more cells
\*   KickReady  a T piece upright in columns 1 and 2, one row above its rest;
\*              rows 1 to 3 lack only columns 1 and 2
\*   TopReady   ten pieces dropped at the spawn columns, the last just landed
\*   IWallReady an I piece upright in column 1, at the top of an empty board
\*   TenthReady nine rows cleared so far, an S piece over the place where its
\*              drop completes the tenth
\*   ScoredTopReady  PairReady played on: two rows cleared, then pieces dropped
\*              at the spawn columns until the next spawn ends the game
\*   GhostTopReady  no row cleared so far, the stack up to the row above the
\*              board in columns 2, 3, 6 and 7; a J piece upright over
\*              columns 9 and 10, where its drop completes row 1
\*   HoldTopReady  no row cleared so far, column 7 stacked up to the top row;
\*              an S piece just spawned one row up, an L piece held
Fresh == [seed |-> 101187584, script |-> <<>>]

LineReady ==
  [seed |-> 101187584,
   script |->
     <<"Tick", "ArrowLeft", "ArrowLeft", "ArrowLeft", "Tick", "Drop", "Tick",
     "ArrowLeft", "ArrowLeft", "ArrowLeft", "Tick", "Drop", "Tick",
     "ArrowRight", "ArrowRight", "ArrowRight", "Tick", "Drop", "Tick", "Tick",
     "Drop", "Tick", "Rotate", "ArrowRight", "ArrowRight", "Tick", "Drop",
     "Tick", "Rotate", "ArrowRight", "ArrowRight", "ArrowRight", "ArrowRight",
     "ArrowDown", "ArrowDown", "ArrowDown", "ArrowDown", "ArrowDown",
     "ArrowDown", "ArrowDown", "ArrowDown", "ArrowDown", "ArrowDown",
     "ArrowDown", "ArrowDown", "ArrowDown", "ArrowDown", "ArrowDown", "Tick">>]

PairReady ==
  [seed |-> 188743680,
   script |->
     <<"Tick", "ArrowLeft", "ArrowLeft", "ArrowLeft", "Tick", "Drop", "Tick",
     "ArrowRight", "Tick", "Drop", "Tick", "Rotate", "ArrowLeft", "ArrowLeft",
     "ArrowLeft", "ArrowLeft", "Tick", "Drop", "Tick", "ArrowRight",
     "ArrowRight", "ArrowRight", "Tick", "Drop", "Tick", "Rotate", "Rotate",
     "ArrowLeft", "Tick", "Drop", "Tick", "Rotate", "ArrowRight",
     "ArrowRight", "ArrowRight", "ArrowRight", "ArrowDown", "ArrowDown",
     "ArrowDown", "ArrowDown", "ArrowDown", "ArrowDown", "ArrowDown",
     "ArrowDown", "ArrowDown", "ArrowDown", "ArrowDown", "ArrowDown",
     "ArrowDown", "ArrowDown", "ArrowDown", "Tick">>]

KickReady ==
  [seed |-> 212860928,
   script |->
     <<"Tick", "ArrowLeft", "Tick", "Drop", "Tick", "ArrowLeft", "Tick",
     "Drop", "Tick", "Rotate", "Rotate", "Rotate", "ArrowRight", "ArrowRight",
     "ArrowRight", "ArrowRight", "ArrowRight", "Tick", "Drop", "Tick",
     "Rotate", "ArrowRight", "ArrowRight", "ArrowRight", "Tick", "Drop",
     "Tick", "Rotate", "ArrowRight", "ArrowRight", "Tick", "Drop", "Tick",
     "ArrowLeft", "Tick", "Drop", "Tick", "Rotate", "ArrowLeft", "ArrowLeft",
     "ArrowLeft", "ArrowLeft", "ArrowDown", "ArrowDown", "ArrowDown",
     "ArrowDown", "ArrowDown", "ArrowDown", "ArrowDown", "ArrowDown",
     "ArrowDown", "ArrowDown", "ArrowDown", "ArrowDown", "ArrowDown",
     "ArrowDown", "ArrowDown", "ArrowDown", "Tick">>]

TopReady ==
  [seed |-> 788004864,
   script |->
     <<"Tick", "Drop", "Tick", "Drop", "Tick", "Drop", "Tick", "Drop", "Tick",
     "Drop", "Tick", "Drop", "Tick", "Drop", "Tick", "Drop", "Tick", "Drop",
     "Tick", "Drop">>]

IWallReady ==
  [seed |-> 101187584,
   script |->
     <<"Tick", "Rotate", "ArrowLeft", "ArrowLeft", "ArrowLeft", "ArrowLeft",
     "ArrowLeft">>]

TenthReady ==
  [seed |-> 966524928,
   script |->
     <<"Tick", "Tick", "Drop", "Tick", "ArrowRight", "ArrowRight",
     "ArrowRight", "Tick", "Drop", "Tick", "ArrowLeft", "ArrowLeft",
     "ArrowLeft", "Tick", "Drop", "Tick", "Rotate", "ArrowLeft", "ArrowLeft",
     "ArrowLeft", "ArrowLeft", "Tick", "Drop", "Tick", "ArrowLeft", "Tick",
     "Drop", "Tick", "ArrowRight", "ArrowRight", "ArrowRight", "Tick", "Drop",
     "Tick", "Tick", "Drop", "Tick", "ArrowRight", "ArrowRight", "ArrowRight",
     "Tick", "Drop", "Tick", "ArrowLeft", "ArrowLeft", "Tick", "Drop", "Tick",
     "ArrowLeft", "Tick", "Drop", "Tick", "ArrowRight", "ArrowRight",
     "ArrowRight", "ArrowRight", "Tick", "Drop", "Tick", "ArrowRight", "Tick",
     "Drop", "Tick", "ArrowRight", "ArrowRight", "ArrowRight", "ArrowRight",
     "Tick", "Drop", "Tick", "ArrowRight", "Tick", "Drop", "Tick",
     "ArrowLeft", "ArrowLeft", "ArrowLeft", "ArrowLeft", "Tick", "Drop",
     "Tick", "ArrowRight", "Tick", "Drop", "Tick", "ArrowLeft", "ArrowLeft",
     "ArrowLeft", "Tick", "Drop", "Tick", "ArrowRight", "ArrowRight",
     "ArrowRight", "ArrowRight", "Tick", "Drop", "Tick", "ArrowLeft",
     "ArrowLeft", "ArrowLeft", "Tick", "Drop", "Tick", "Rotate", "Rotate",
     "ArrowLeft", "Tick", "Drop", "Tick", "ArrowRight", "ArrowRight", "Tick",
     "Drop", "Tick", "ArrowRight", "Tick", "Drop", "Tick", "Rotate",
     "ArrowRight", "ArrowRight", "Tick", "Drop", "Tick", "ArrowRight",
     "ArrowRight", "ArrowRight", "ArrowRight", "Tick", "Drop", "Tick",
     "Rotate", "ArrowLeft", "ArrowLeft", "ArrowLeft", "ArrowLeft", "Tick",
     "Drop", "Tick", "ArrowLeft", "Tick">>]

ScoredTopReady ==
  [seed |-> 188743680,
   script |->
     <<"Tick", "ArrowLeft", "ArrowLeft", "ArrowLeft", "Tick", "Drop", "Tick",
     "ArrowRight", "Tick", "Drop", "Tick", "Rotate", "ArrowLeft", "ArrowLeft",
     "ArrowLeft", "ArrowLeft", "Tick", "Drop", "Tick", "ArrowRight",
     "ArrowRight", "ArrowRight", "Tick", "Drop", "Tick", "Rotate", "Rotate",
     "ArrowLeft", "Tick", "Drop", "Tick", "Rotate", "ArrowRight",
     "ArrowRight", "ArrowRight", "ArrowRight", "ArrowDown", "ArrowDown",
     "ArrowDown", "ArrowDown", "ArrowDown", "ArrowDown", "ArrowDown",
     "ArrowDown", "ArrowDown", "ArrowDown", "ArrowDown", "ArrowDown",
     "ArrowDown", "ArrowDown", "ArrowDown", "Tick", "Drop", "Tick", "Drop",
     "Tick", "Drop", "Tick", "Drop", "Tick", "Drop", "Tick", "Drop", "Tick",
     "Drop", "Tick", "Drop", "Tick", "Drop", "Tick", "Drop", "Tick", "Drop",
     "Tick", "Drop">>]

GhostTopReady ==
  [seed |-> 1831862272,
   script |->
     <<"Tick", "Hold", "ArrowLeft", "Tick", "Drop", "Tick", "Hold",
     "ArrowLeft", "ArrowLeft", "ArrowLeft", "ArrowLeft", "ArrowLeft",
     "Tick", "Drop", "Tick", "Hold", "ArrowRight", "ArrowRight", "Tick",
     "Drop", "Tick", "Rotate", "Tick", "Drop", "Tick", "Hold", "Rotate",
     "Tick", "Drop", "Tick", "Rotate", "Rotate", "Tick", "Drop", "Tick",
     "Hold", "Rotate", "ArrowLeft", "Tick", "Drop", "Tick", "Rotate",
     "Rotate", "Rotate", "ArrowLeft", "Tick", "Drop", "Tick", "Tick",
     "Drop", "Tick", "Hold", "ArrowLeft", "Tick", "Drop", "Tick",
     "Hold", "Rotate", "Rotate", "ArrowRight", "ArrowRight",
     "ArrowRight", "Tick", "Drop", "Tick", "Rotate", "Rotate", "Rotate",
     "ArrowLeft", "Tick", "Drop", "Tick", "Hold", "Rotate", "Rotate",
     "Rotate", "ArrowRight", "ArrowRight", "ArrowRight", "ArrowRight",
     "ArrowRight">>]

HoldTopReady ==
  [seed |-> 1831862272,
   script |->
     <<"Tick", "Hold", "Rotate", "Rotate", "Rotate", "ArrowRight",
     "ArrowRight", "ArrowRight", "Tick", "Drop", "Tick", "Hold", "Rotate",
     "ArrowRight", "ArrowRight", "Tick", "Drop", "Tick", "Rotate",
     "ArrowRight", "Tick", "Drop", "Tick", "Rotate", "ArrowRight", "Tick",
     "Drop", "Tick", "Hold", "ArrowRight", "ArrowRight", "Tick", "Drop",
     "Tick", "Rotate", "ArrowRight", "ArrowRight", "Tick", "Drop", "Tick",
     "Rotate", "ArrowLeft", "ArrowLeft", "Tick", "Drop", "Tick", "Hold",
     "ArrowRight", "Tick", "Drop", "Tick">>]

Scenarios ==
  <<Fresh, LineReady, PairReady, KickReady, TopReady, IWallReady, TenthReady,
    ScoredTopReady, GhostTopReady, HoldTopReady>>

\* starts the new game from the seed the ended game was started with
restartKeepingSeed(initial, st) == [initial EXCEPT !.highscore = st.highscore]

\* main.ts 190-197: the snapshot a restart hands to startGame; initial is the
\* snapshot the ended game was started with
restart(initial, st) ==
  [initial EXCEPT !.highscore = st.highscore, !.seed = hash(st.seed)]

\* no key is down and no keyboard event has been seen
NoEvent == [type |-> "none", code |-> "none", repeat |-> FALSE]

\* no subscription is followed
NoSubs ==
  /\ folds = <<>>
  /\ restartSubs = <<>>

NoKeys ==
  /\ keysDown = {}
  /\ keyStates = <<>>
  /\ event = NoEvent
  /\ emitted = <<>>

Init ==
  /\ \E i \in 1..Len(Scenarios) :
       /\ game = initialState(Scenarios[i].seed)
       /\ s = scan(game, Scenarios[i].script)
  /\ prev = s
  /\ last = "none"
  /\ steps = 0
  /\ crashed = FALSE
  /\ NoKeys
  /\ NoSubs

\* goes on feeding actions to a game that has ended
RunningPastGameOver == ~crashed /\ steps < MaxSteps

Running == ~crashed /\ ~s.gameEnd /\ steps < MaxSteps

Apply(a) ==
  /\ Running
  /\ IF Throws(a, s)
     THEN s' = s /\ crashed' = TRUE
     ELSE s' = perform(a, s) /\ crashed' = FALSE
  /\ prev' = s
  /\ last' = a
  /\ steps' = steps + 1
  /\ UNCHANGED <<game, keyVars, subVars>>

DoTick == Apply("Tick")
DoMoveLeft == Apply("ArrowLeft")
DoMoveRight == Apply("ArrowRight")
DoMoveDown == Apply("ArrowDown")
DoRotate == Apply("Rotate")
DoHold == Apply("Hold")
DoDrop == Apply("Drop")
DoCollision == Apply("Collision")

\* the Enter key of the restart subscription, which exists once the subscriber
\* has seen gameEnd; startGame then runs a new fold from the restart snapshot
DoEnter ==
  /\ ~crashed
  /\ s.gameEnd
  /\ steps < MaxSteps
  /\ s' = restart(game, s)
  /\ game' = s'
  /\ crashed' = FALSE
  /\ prev' = s
  /\ last' = "Enter"
  /\ steps' = steps + 1
  /\ UNCHANGED <<keyVars, subVars>>

Next ==
  \/ DoTick
  \/ DoMoveLeft
  \/ DoMoveRight
  \/ DoMoveDown
  \/ DoRotate
  \/ DoHold
  \/ DoDrop
  \/ DoCollision
  \/ DoEnter

Spec == Init /\ [][Next]_vars

(***************************************************************************)
(* main.ts: the keyboard and the timers that feed actions$.  KeySpec runs  *)
(* one game from the initial state and lets the keyboard and the three     *)
(* timers produce the actions; `event` is the last event, `emitted` the    *)
(* actions it put on actions$, `keysDown` the keys physically down.       *)
(***************************************************************************)
MaxEvents == 5

SetOf(seq) == {seq[i] : i \in 1..Len(seq)}

moveKeys == <<"ArrowLeft", "ArrowRight", "ArrowDown">>

otherKeys == <<"ArrowUp", "KeyC", "Space">>

\* the codes the keyboard can send; KeyA stands for every key the game ignores
Codes == SetOf(moveKeys) \cup SetOf(otherKeys) \cup {"KeyA"}

keyToActionMap ==
  [ArrowLeft |-> "ArrowLeft", ArrowRight |-> "ArrowRight",
   ArrowDown |-> "ArrowDown"]

\* lets the auto-repeat events of a held key through
fromKeyWithRepeat(keyCode, action, e) ==
  IF e.code = keyCode THEN <<action>> ELSE <<>>

\* what fromKeyNoRepeat(keyCode, action) emits for the keydown event e
fromKeyNoRepeat(keyCode, action, e) ==
  IF e.code = keyCode /\ ~e.repeat THEN <<action>> ELSE <<>>

\* the filter of keyState$: only the six keys of the game get through
keyStateFilter(e) == e.code \in SetOf(moveKeys) \cup SetOf(otherKeys)

\* the map of keyState$
keyCodes(e) ==
  [keyCode |-> e.code,
   isPressing |-> e.type = "keydown" /\ e.code \in SetOf(moveKeys)]

\* the scan of keyState$: replace the entry of the key, or append one
keyStateScan(states, key) ==
  IF \E i \in 1..Len(states) : states[i].keyCode = key.keyCode
  THEN [i \in 1..Len(states) |->
          IF states[i].keyCode = key.keyCode THEN key ELSE states[i]]
  ELSE Append(states, key)

\* the reduce of movement$: one Move for every entry that is being pressed
RECURSIVE movementOf(_, _)
movementOf(states, n) ==
  IF n = 0 THEN <<>>
  ELSE IF states[n].isPressing
       THEN Append(movementOf(states, n - 1), keyToActionMap[states[n].keyCode])
       ELSE movementOf(states, n - 1)

movement(states) == movementOf(states, Len(states))

\* what the listeners of one keyboard event put on actions$, in the order in
\* which merge subscribed them: movement$, rotate$, hold$, drop$
keyActions(states, e) ==
  (IF keyStateFilter(e) THEN movement(keyStateScan(states, keyCodes(e)))
   ELSE <<>>)
  \o (IF e.type = "keydown"
      THEN fromKeyNoRepeat("ArrowUp", "Rotate", e)
           \o fromKeyNoRepeat("KeyC", "Hold", e)
           \o fromKeyNoRepeat("Space", "Drop", e)
      ELSE <<>>)

\* the scan of state$ over the actions of one event, until the fold throws or
\* the subscriber unsubscribes on gameEnd
feedOne(st, a) ==
  IF Throws(a, st)
  THEN [s |-> st, prev |-> st, last |-> a, crashed |-> TRUE]
  ELSE [s |-> perform(a, st), prev |-> st, last |-> a, crashed |-> FALSE]

RECURSIVE feed(_, _, _)
feed(acc, acts, i) ==
  IF i > Len(acts) \/ acc.crashed \/ acc.s.gameEnd THEN acc
  ELSE feed(feedOne(acc.s, acts[i]), acts, i + 1)

Listening == ~crashed /\ ~s.gameEnd /\ steps < MaxEvents

\* one event reaches the streams: acts go through the fold of state$
Emit(e, acts) ==
  /\ event' = e
  /\ emitted' = acts
  /\ \E r \in {feed([s |-> s, prev |-> prev, last |-> last,
                      crashed |-> FALSE], acts, 1)} :
       /\ s' = r.s
       /\ prev' = r.prev
       /\ last' = r.last
       /\ crashed' = r.crashed
  /\ steps' = steps + 1
  /\ UNCHANGED <<game, subVars>>

KeyboardEvent(e) ==
  /\ keyStates' =
       IF keyStateFilter(e) THEN keyStateScan(keyStates, keyCodes(e))
       ELSE keyStates
  /\ Emit(e, keyActions(keyStates, e))

\* a key goes down
KeyDown ==
  /\ Listening
  /\ \E k \in Codes \ keysDown :
       /\ keysDown' = keysDown \cup {k}
       /\ KeyboardEvent([type |-> "keydown", code |-> k, repeat |-> FALSE])

\* the keyboard repeats a key that stays down
KeyRepeat ==
  /\ Listening
  /\ \E k \in keysDown :
       /\ keysDown' = keysDown
       /\ KeyboardEvent([type |-> "keydown", code |-> k, repeat |-> TRUE])

\* a key is released
KeyUp ==
  /\ Listening
  /\ \E k \in keysDown :
       /\ keysDown' = keysDown \ {k}
       /\ KeyboardEvent([type |-> "keyup", code |-> k, repeat |-> FALSE])

\* tick$: interval(10)
TimerTick ==
  /\ Listening
  /\ Emit([type |-> "tick", code |-> "none", repeat |-> FALSE], <<"Tick">>)
  /\ UNCHANGED <<keysDown, keyStates>>

\* downTick$: the gravity interval
DownTick ==
  /\ Listening
  /\ Emit([type |-> "downTick", code |-> "none", repeat |-> FALSE],
          <<"ArrowDown">>)
  /\ UNCHANGED <<keysDown, keyStates>>

\* collideTick$: interval(1000)
CollideTick ==
  /\ Listening
  /\ Emit([type |-> "collideTick", code |-> "none", repeat |-> FALSE],
          <<"Collision">>)
  /\ UNCHANGED <<keysDown, keyStates>>

KeyInit ==
  /\ game = initialState(Fresh.seed)
  /\ s = game
  /\ prev = s
  /\ last = "none"
  /\ steps = 0
  /\ crashed = FALSE
  /\ NoKeys
  /\ NoSubs

KeyNext ==
  \/ KeyDown
  \/ KeyRepeat
  \/ KeyUp
  \/ TimerTick
  \/ DownTick
  \/ CollideTick

KeySpec == KeyInit /\ [][KeyNext]_vars

(***************************************************************************)
(* RNG alone: RngSpec draws a seed and hashes it again and again, as the   *)
(* seed of a game is hashed by every settled piece, Hold and restart.      *)
(***************************************************************************)
MaxHashes == 6

\* the seeds of the scenarios, the ends of the residue range, the seeds at
\* which the product a * seed loses one more bit, the seed below 2^53 / a with
\* the greatest hash, and the residues that the exact congruence maps to
\* m - 2 and m - 1
SeedInputs ==
  {0, 1, 2, 1114082, 8162278, 101187584, 188743680, 230538014, 520343481,
   966524928, 2147483646, RNG_mLess1} \cup SetOf(RoundFrom)

RngInit ==
  /\ \E seed \in SeedInputs : game = initialState(seed)
  /\ s = game
  /\ prev = s
  /\ last = "none"
  /\ steps = 0
  /\ crashed = FALSE
  /\ NoKeys
  /\ NoSubs

\* seed: RNG.hash(s.seed)
HashSeed ==
  /\ steps < MaxHashes
  /\ s' = [s EXCEPT !.seed = hash(@)]
  /\ prev' = s
  /\ last' = "hash"
  /\ steps' = steps + 1
  /\ UNCHANGED <<game, crashed, keyVars, subVars>>

RngNext == HashSeed

RngSpec == RngInit /\ [][RngNext]_vars

(***************************************************************************)
(* The engine alone: the actions of state.ts applied to a snapshot in any  *)
(* order, with no subscriber that stops on gameEnd.                        *)
(***************************************************************************)
MaxEngineSteps == 4

\* the boards the engine is started on: a fresh game and boards stacked to the
\* top
EngineScenarios == <<Fresh, TopReady, ScoredTopReady, HoldTopReady>>

EngineInit ==
  /\ \E i \in 1..Len(EngineScenarios) :
       /\ game = initialState(EngineScenarios[i].seed)
       /\ s = scan(game, EngineScenarios[i].script)
  /\ prev = s
  /\ last = "none"
  /\ steps = 0
  /\ crashed = FALSE
  /\ NoKeys
  /\ NoSubs

\* action.perform(state), whatever gameEnd is
Perform(a) ==
  /\ ~crashed
  /\ steps < MaxEngineSteps
  /\ IF Throws(a, s)
     THEN s' = s /\ crashed' = TRUE
     ELSE s' = perform(a, s) /\ crashed' = FALSE
  /\ prev' = s
  /\ last' = a
  /\ steps' = steps + 1
  /\ UNCHANGED <<game, keyVars, subVars>>

PerformTick == Perform("Tick")
PerformMoveLeft == Perform("ArrowLeft")
PerformMoveRight == Perform("ArrowRight")
PerformMoveDown == Perform("ArrowDown")
PerformRotate == Perform("Rotate")
PerformHold == Perform("Hold")
PerformDrop == Perform("Drop")
PerformCollision == Perform("Collision")

EngineNext ==
  \/ PerformTick
  \/ PerformMoveLeft
  \/ PerformMoveRight
  \/ PerformMoveDown
  \/ PerformRotate
  \/ PerformHold
  \/ PerformDrop
  \/ PerformCollision

EngineSpec == EngineInit /\ [][EngineNext]_vars

(***************************************************************************)
(* The subscriptions of main.ts.  startGame subscribes a fold of actions$  *)
(* (a subscription of state$); its subscriber, on a snapshot with gameEnd, *)
(* unsubscribes that fold and subscribes a restart listener to keydown;    *)
(* on any other snapshot it unsubscribes the restart listener startGame    *)
(* was given.  The listener's callback calls startGame again.  `folds` and *)
(* `restartSubs` hold every subscription made so far, in order.            *)
(***************************************************************************)
MaxGameEvents == 5

\* the boards the first game is found on: a fresh game and two that the next
\* Tick ends
GameScenarios == <<Fresh, TopReady, ScoredTopReady>>

\* startGame(initialState, restartSub): state$ is subscribed, nothing has been
\* emitted yet; restartSub is 0 for null and else the position of the listener
startGame(initial, restartSub) ==
  [state |-> initial, initialState |-> initial, restartSub |-> restartSub,
   subscribed |-> TRUE, rendered |-> FALSE]

\* fromEvent(document, "keydown").pipe(filter(key === "Enter")).subscribe(...)
restartListener(st, initial) ==
  [subscribed |-> TRUE, ended |-> st, initialState |-> initial]

\* the keydown of Enter reaches every restart listener still subscribed, in
\* the order they subscribed; each calls startGame with the restart snapshot
RECURSIVE restartAll(_, _, _)
restartAll(fs, subs, r) ==
  IF r > Len(subs) THEN fs
  ELSE restartAll(
         IF subs[r].subscribed
         THEN Append(fs, startGame(restart(subs[r].initialState,
                                           subs[r].ended), r))
         ELSE fs,
         subs, r + 1)

\* the subscriber of state$ (main.ts 164-204) called with snapshot st by fold i
Subscriber(i, st) ==
  IF st.gameEnd
  THEN /\ folds' = [folds EXCEPT ![i] = [@ EXCEPT !.state = st,
                                                   !.subscribed = FALSE,
                                                   !.rendered = TRUE]]
       /\ restartSubs' =
            Append(restartSubs, restartListener(st, folds[i].initialState))
  ELSE /\ folds' = [folds EXCEPT ![i] = [@ EXCEPT !.state = st,
                                                   !.rendered = TRUE]]
       /\ restartSubs' =
            IF folds[i].restartSub = 0 THEN restartSubs
            ELSE [restartSubs EXCEPT ![folds[i].restartSub] =
                    [@ EXCEPT !.subscribed = FALSE]]

GameListening == steps < MaxGameEvents

\* actions$ of fold i emits a: the scan applies it and the subscriber sees the
\* snapshot; a perform that throws ends the subscription with the error
FoldAction(i, a) ==
  /\ GameListening
  /\ folds[i].subscribed
  /\ IF Throws(a, folds[i].state)
     THEN /\ folds' = [folds EXCEPT ![i] = [@ EXCEPT !.subscribed = FALSE]]
          /\ UNCHANGED restartSubs
     ELSE Subscriber(i, perform(a, folds[i].state))
  /\ last' = a
  /\ steps' = steps + 1
  /\ UNCHANGED <<s, game, prev, crashed, keyVars>>

\* a keydown of Enter while some restart listener is subscribed
EnterKey ==
  /\ GameListening
  /\ \E r \in 1..Len(restartSubs) : restartSubs[r].subscribed
  /\ folds' = restartAll(folds, restartSubs, 1)
  /\ last' = "Enter"
  /\ steps' = steps + 1
  /\ UNCHANGED <<s, game, prev, crashed, keyVars, restartSubs>>

\* startGame(initialState, null) of main.ts 207, the first game found on one of
\* the GameScenarios
GameInit ==
  /\ \E i \in 1..Len(GameScenarios) :
       /\ game = initialState(GameScenarios[i].seed)
       /\ s = scan(game, GameScenarios[i].script)
  /\ prev = s
  /\ last = "none"
  /\ steps = 0
  /\ crashed = FALSE
  /\ NoKeys
  /\ folds = <<[startGame(game, 0) EXCEPT !.state = s, !.rendered = TRUE]>>
  /\ restartSubs = <<>>

\* merge(...) of main.ts 148-156: some subscribed fold receives an action
FoldStep == \E i \in 1..Len(folds) : \E a \in Actions : FoldAction(i, a)

GameNext ==
  \/ FoldStep
  \/ EnterKey

GameSpec == GameInit /\ [][GameNext]_vars

(***************************************************************************)
(* Properties.  `prev` is the snapshot the last action was applied to and  *)
(* `s` the snapshot it returned, so a statement about one application of   *)
(* an action is a state predicate over prev, last and s.                   *)
(***************************************************************************)
Pos(c) == <<c.x, c.y>>

Range(seq) == {seq[i] : i \in 1..Len(seq)}

Occupied(blocks) == {Pos(b) : b \in Range(blocks)}

NoOverlap(blocks) ==
  \A i, j \in 1..Len(blocks) : i # j => Pos(blocks[i]) # Pos(blocks[j])

\* the snapshot has a current piece that has settled / that is still falling
Settled(st) == HasTetro(st.currentBlock) /\ st.currentBlock.collided

Live(st) == HasTetro(st.currentBlock) /\ ~st.currentBlock.collided

\* C1.  Occupancy invariant: in every reachable snapshot no two cells of
\* blocks have the same (x, y).
OccupancyInvariant == NoOverlap(s.blocks)

\* C2.  Preview promotion: a Tick applied to a snapshot that has a nextBlock
\* and whose currentBlock is collided returns a currentBlock with the shape
\* and the seed of that nextBlock.
PreviewPromotion ==
  (last = "Tick" /\ HasTetro(prev.nextBlock) /\ Settled(prev))
    => /\ s.currentBlock.shape = prev.nextBlock.shape
       /\ s.currentBlock.seed = prev.nextBlock.seed

\* the rows of the settled piece that hold exactly GRID_WIDTH cells of blocks
RowCount(blocks, y) == Cardinality({i \in 1..Len(blocks) : blocks[i].y = y})

CompletedRows(st) ==
  IF Settled(st)
  THEN {y \in {c.y : c \in Range(st.currentBlock.cells)} :
          RowCount(st.blocks, y) = GRID_WIDTH}
  ELSE {}

ClearedBelow(st, b) == Cardinality({y \in CompletedRows(st) : y > b.y})

BagOf(seq) ==
  [v \in Range(seq) |-> Cardinality({i \in 1..Len(seq) : seq[i] = v})]

\* blocks without the completed rows, every cell lowered by one cell height
\* for each completed row below it
Survivors(st) ==
  LET Stays(b) == b.y \notin CompletedRows(st)
      keep == SelectSeq(st.blocks, Stays)
  IN  [i \in 1..Len(keep) |->
         [keep[i] EXCEPT !.y = @ + ClearedBelow(st, keep[i]) * HEIGHT]]

\* C3.  Line-clear compaction: a Tick applied to a snapshot whose collided
\* piece completes k >= 1 rows returns blocks holding exactly the other cells,
\* each lowered by (completed rows below it) * HEIGHT with x and id unchanged,
\* so that the cell count drops by exactly k * GRID_WIDTH.
LineClearCompaction ==
  (last = "Tick" /\ CompletedRows(prev) # {})
    => /\ BagOf(s.blocks) = BagOf(Survivors(prev))
       /\ Len(s.blocks)
            = Len(prev.blocks) - Cardinality(CompletedRows(prev)) * GRID_WIDTH

\* C4.  Scoring: a Tick that clears k rows adds exactly 100 * k to points and
\* k to lineClears (nothing when k = 0); every other action leaves points and
\* lineClears unchanged.
Scoring ==
  /\ last = "Tick" =>
       /\ s.points = prev.points + 100 * Cardinality(CompletedRows(prev))
       /\ s.lineClears = prev.lineClears + Cardinality(CompletedRows(prev))
  /\ last \in Actions \ {"Tick"} =>
       /\ s.points = prev.points
       /\ s.lineClears = prev.lineClears

\* a Tick has just cleared two rows at once and scored 200 for them
ScoringWitness ==
  /\ last = "Tick"
  /\ Cardinality(CompletedRows(prev)) = 2
  /\ s.points = prev.points + 200
  /\ s.lineClears = prev.lineClears + 2

FullRow(blocks, y) ==
  \A i \in 0..(GRID_WIDTH - 1) : <<i * WIDTH, y>> \in Occupied(blocks)

\* C5.  No full row survives a Tick: in a snapshot returned by a Tick there
\* is no row in which all GRID_WIDTH columns are occupied by cells of blocks.
NoFullRowAfterTick ==
  last = "Tick" => \A k \in 1..Len(s.blocks) : ~FullRow(s.blocks, s.blocks[k].y)

\* the Tick spawned a replacement piece
Spawned(a, before) == a = "Tick" /\ ~Live(before)

SpawnCells(shape, pivotY) ==
  {<<CANVAS_WIDTH \div 2 - WIDTH + p.x * WIDTH, pivotY + p.y * HEIGHT>> :
     p \in Range(TetroStartPosMap[shape][1])}

CanonicalCells(shape) == SpawnCells(shape, HEIGHT)

\* the cells a piece is given once a canonical cell is found occupied
RaisedCells(shape) == SpawnCells(shape, 0)

CanonicalBlocked(st) ==
  CanonicalCells(st.currentBlock.shape) \cap Occupied(st.blocks) # {}

RaisedBlocked(st) ==
  RaisedCells(st.currentBlock.shape) \cap Occupied(st.blocks) # {}

\* C6 as stated.  Game-over detection: when a Tick spawns a replacement piece
\* and one of its canonical spawn cells coincides with a cell of blocks, the
\* snapshot returned by that Tick has gameEnd = TRUE.
GameOverOnCanonicalOverlap ==
  (Spawned(last, prev) /\ CanonicalBlocked(s)) => s.gameEnd

\* C6 as amended.  When a Tick spawns a replacement piece, one of its canonical
\* spawn cells coincides with a cell of blocks, and one of the cells the piece
\* is then given instead (the same offsets around pivot y = 0) coincides with
\* a cell of blocks as well, the snapshot returned by that Tick has
\* gameEnd = TRUE.
GameOverOnSpawnOverlap ==
  (Spawned(last, prev) /\ CanonicalBlocked(s) /\ RaisedBlocked(s)) => s.gameEnd

\* a Tick has spawned a piece on a board whose canonical and raised spawn
\* cells are both taken, and has ended the game
GameOverWitness ==
  /\ Spawned(last, prev)
  /\ CanonicalBlocked(s)
  /\ RaisedBlocked(s)
  /\ Occupied(s.currentBlock.cells) = RaisedCells(s.currentBlock.shape)
  /\ s.gameEnd

\* C7.  Drop snapping: Drop applied to a snapshot with an uncollided
\* currentBlock puts cell i of the piece at the (x, y) of cell i of the input
\* ghostBlock, sets collided, appends those four cells to blocks, sets
\* canHoldAgain and advances seed to hash(seed).
DropSnapping ==
  (last = "Drop" /\ Live(prev)) =>
    /\ \A i \in 1..4 :
         Pos(s.currentBlock.cells[i]) = Pos(prev.ghostBlock.cells[i])
    /\ s.currentBlock.collided
    /\ s.blocks = prev.blocks \o s.currentBlock.cells
    /\ s.canHoldAgain
    /\ s.seed = hash(prev.seed)

\* a Drop has moved a falling piece, in column and in row, onto a ghost that
\* was computed before the piece was last moved
DropWitness ==
  /\ last = "Drop"
  /\ Live(prev)
  /\ \E i \in 1..4 :
       /\ prev.currentBlock.cells[i].x # prev.ghostBlock.cells[i].x
       /\ prev.currentBlock.cells[i].y # prev.ghostBlock.cells[i].y
  /\ s.currentBlock.collided
  /\ Len(s.blocks) = Len(prev.blocks) + 4

HoldTakesEffect(a, before) == a = "Hold" /\ Live(before) /\ before.canHoldAgain

\* C8.  Hold gating: a Hold that takes effect leaves canHoldAgain FALSE; while
\* it is FALSE every Move, Rotate, Tick and Hold keeps it FALSE (only a
\* settling Collision or a Drop sets it again); a Hold applied while it is
\* FALSE returns its input snapshot.
HoldGating ==
  /\ HoldTakesEffect(last, prev) => ~s.canHoldAgain
  /\ ( /\ last \in {"ArrowLeft", "ArrowRight", "ArrowDown", "Rotate", "Tick",
                    "Hold"}
       /\ ~prev.canHoldAgain ) => ~s.canHoldAgain
  /\ (last = "Hold" /\ ~prev.canHoldAgain) => s = prev

\* a second Hold on a falling piece, after the first one took effect, has
\* changed nothing
HoldGatingWitness ==
  /\ last = "Hold"
  /\ Live(prev)
  /\ HasTetro(prev.heldBlock)
  /\ ~prev.canHoldAgain
  /\ s = prev

\* C9.  Hold with a held piece is a pure swap: the new currentBlock has the
\* shape of the previous heldBlock, the new heldBlock the shape of the
\* previous currentBlock, both at rotation 0, and seed, blockCount, nextBlock,
\* blocks, points and lineClears are unchanged.
HoldSwap ==
  (HoldTakesEffect(last, prev) /\ HasTetro(prev.heldBlock)) =>
    /\ s.currentBlock.shape = prev.heldBlock.shape
    /\ s.heldBlock.shape = prev.currentBlock.shape
    /\ s.currentBlock.rotation = 0
    /\ s.heldBlock.rotation = 0
    /\ s.seed = prev.seed
    /\ s.blockCount = prev.blockCount
    /\ s.nextBlock = prev.nextBlock
    /\ s.blocks = prev.blocks
    /\ s.points = prev.points
    /\ s.lineClears = prev.lineClears

\* a Hold has swapped a falling piece with a held piece of another shape
HoldSwapWitness ==
  /\ HoldTakesEffect(last, prev)
  /\ HasTetro(prev.heldBlock)
  /\ prev.heldBlock.shape # prev.currentBlock.shape
  /\ s.currentBlock.shape = prev.heldBlock.shape
  /\ s.heldBlock.shape = prev.currentBlock.shape

Ids(t) == [i \in 1..Len(t.cells) |-> t.cells[i].id]

\* C10.  First hold: when Hold takes effect and nothing is held, the new
\* heldBlock has the shape, seed and cell ids of the previous currentBlock,
\* the new currentBlock those of the previous nextBlock, the new nextBlock is
\* drawn from hash(hash(seed)), seed becomes hash(seed), blockCount grows by
\* 4 and blocks is unchanged.
FirstHold ==
  (HoldTakesEffect(last, prev) /\ ~HasTetro(prev.heldBlock)) =>
    /\ s.heldBlock.shape = prev.currentBlock.shape
    /\ s.heldBlock.seed = prev.currentBlock.seed
    /\ Ids(s.heldBlock) = Ids(prev.currentBlock)
    /\ s.currentBlock.shape = prev.nextBlock.shape
    /\ s.currentBlock.seed = prev.nextBlock.seed
    /\ Ids(s.currentBlock) = Ids(prev.nextBlock)
    /\ s.nextBlock.seed = hash(hash(prev.seed))
    /\ s.nextBlock.shape = TetroShapes[scale(hash(hash(prev.seed))) + 1]
    /\ s.seed = hash(prev.seed)
    /\ s.blockCount = prev.blockCount + 4
    /\ s.blocks = prev.blocks

\* a first Hold has taken effect on a board that already holds settled cells
FirstHoldWitness ==
  /\ HoldTakesEffect(last, prev)
  /\ ~HasTetro(prev.heldBlock)
  /\ prev.blocks # <<>>
  /\ HasTetro(s.heldBlock)
  /\ s.blockCount = prev.blockCount + 4

IsMove(a) == a \in {"ArrowLeft", "ArrowRight", "ArrowDown"}

\* the positions of cells after the Move named a
ShiftedBy(cells, a) ==
  [i \in 1..Len(cells) |->
     <<cells[i].x + (CASE a = "ArrowLeft" -> -WIDTH
                       [] a = "ArrowRight" -> WIDTH
                       [] OTHER -> 0),
       cells[i].y + (IF a = "ArrowDown" THEN HEIGHT ELSE 0)>>]

Positions(cells) == [i \in 1..Len(cells) |-> Pos(cells[i])]

\* every position is on the board (above the ceiling is allowed) and free
InBoundsAndFree(positions, blocks) ==
  \A i \in 1..Len(positions) :
    /\ positions[i] \notin Occupied(blocks)
    /\ positions[i][1] >= 0
    /\ positions[i][1] < CANVAS_WIDTH
    /\ positions[i][2] < CANVAS_HEIGHT

LeftmostX(cells) == CHOOSE x \in {c.x : c \in Range(cells)} :
                      \A c \in Range(cells) : x <= c.x

\* C11.  Move is atomic: a Move on an uncollided currentBlock shifts all four
\* cells by the offset when every shifted cell is free and inside the board,
\* and leaves the cells unchanged otherwise (so a move left at the left
\* boundary changes nothing); Move never changes blocks.
MoveAtomic ==
  /\ (IsMove(last) /\ Live(prev)) =>
       /\ Positions(s.currentBlock.cells) =
            IF InBoundsAndFree(ShiftedBy(prev.currentBlock.cells, last),
                               prev.blocks)
            THEN ShiftedBy(prev.currentBlock.cells, last)
            ELSE Positions(prev.currentBlock.cells)
       /\ Ids(s.currentBlock) = Ids(prev.currentBlock)
  /\ (last = "ArrowLeft" /\ Live(prev)
        /\ LeftmostX(prev.currentBlock.cells) = 0) =>
       s.currentBlock.cells = prev.currentBlock.cells
  /\ IsMove(last) => s.blocks = prev.blocks

\* a move left of a falling piece that touches the left boundary has left
\* its cells where they were
MoveAtomicWitness ==
  /\ last = "ArrowLeft"
  /\ Live(prev)
  /\ LeftmostX(prev.currentBlock.cells) = 0
  /\ s.currentBlock.cells = prev.currentBlock.cells

NextRotation(t) == (t.rotation + 1) % Len(TetroStartPosMap[t.shape])

\* the next rotation state laid around the pivot of piece t
NaiveRotation(t) ==
  LET from == TetroStartPosMap[t.shape][t.rotation + 1][2]
      to == TetroStartPosMap[t.shape][NextRotation(t) + 1]
  IN  [i \in 1..Len(to) |->
         <<t.originBlock.x + (to[i].x - from.x) * WIDTH,
           t.originBlock.y + (to[i].y - from.y) * HEIGHT>>]

Displaced(positions, k) ==
  [i \in 1..Len(positions) |->
     <<positions[i][1] + k.x * WIDTH, positions[i][2] - k.y * HEIGHT>>]

KickCandidates(t) == PieceWallKickMap[t.shape][NextRotation(t) + 1]

\* candidate j is the first of the table whose displaced cells are in bounds
\* and free
FirstPassingKick(t, blocks, j) ==
  /\ InBoundsAndFree(Displaced(NaiveRotation(t), KickCandidates(t)[j]), blocks)
  /\ \A i \in 1..(j - 1) :
       ~InBoundsAndFree(Displaced(NaiveRotation(t), KickCandidates(t)[i]),
                        blocks)

\* C12.  Rotation with wall-kick: Rotate commits the naively rotated cells
\* when they are in bounds and free; otherwise it commits them displaced by
\* the first candidate (dx, dy) of PieceWallKickMap[shape][next rotation], in
\* table order, whose displaced cells (x + dx * WIDTH, y - dy * HEIGHT) are in
\* bounds and free; either way rotation becomes (rotation + 1) mod the number
\* of rotation states.
RotationWallKick ==
  (last = "Rotate" /\ HasTetro(prev.currentBlock)) =>
    LET t == prev.currentBlock
    IN  IF InBoundsAndFree(NaiveRotation(t), prev.blocks)
        THEN /\ Positions(s.currentBlock.cells) = NaiveRotation(t)
             /\ s.currentBlock.rotation = NextRotation(t)
        ELSE \A j \in 1..Len(KickCandidates(t)) :
               FirstPassingKick(t, prev.blocks, j) =>
                 /\ Positions(s.currentBlock.cells)
                      = Displaced(NaiveRotation(t), KickCandidates(t)[j])
                 /\ s.currentBlock.rotation = NextRotation(t)

\* an I piece upright against the left boundary has been rotated: the naive
\* rotation left the board and the piece sits at the first passing offset
RotationWallKickWitness ==
  /\ last = "Rotate"
  /\ Live(prev)
  /\ prev.currentBlock.shape = "I"
  /\ \A c \in Range(prev.currentBlock.cells) : c.x = 0
  /\ ~InBoundsAndFree(NaiveRotation(prev.currentBlock), prev.blocks)
  /\ \E j \in 2..Len(KickCandidates(prev.currentBlock)) :
       /\ FirstPassingKick(prev.currentBlock, prev.blocks, j)
       /\ Positions(s.currentBlock.cells)
            = Displaced(NaiveRotation(prev.currentBlock),
                        KickCandidates(prev.currentBlock)[j])
  /\ s.currentBlock.rotation = NextRotation(prev.currentBlock)

\* C14.  Level invariant: in every reachable snapshot level is
\* floor(lineClears / 10).
LevelInvariant == s.level = s.lineClears \div 10

\* a Tick has cleared the tenth row of the game and the level is 1
LevelInvariantWitness ==
  /\ last = "Tick"
  /\ prev.lineClears < 10
  /\ s.lineClears >= 10
  /\ s.level = 1

\* C15.  High score is a running maximum: highscore >= points in every
\* reachable snapshot, and no transition, a restart included, lowers
\* highscore.
HighscoreRunningMax ==
  /\ s.highscore >= s.points
  /\ last # "none" => s.highscore >= prev.highscore

\* a game that had scored has been restarted: points are back to 0 and the
\* high score is still the one of the ended game
HighscoreWitness ==
  /\ last = "Enter"
  /\ prev.points > 0
  /\ prev.highscore = prev.points
  /\ s.points = 0
  /\ s.highscore = prev.highscore

\* C16.  Level-change signal: the Tick whose clear brings lineClears to 10
\* returns level = 1 and changeInLevel = TRUE, and every snapshot returned by
\* any other transition (a Move, Rotate, Hold, Drop, Collision, or a Tick that
\* does not raise the level) has changeInLevel = FALSE.
LevelChangeSignal ==
  /\ (last = "Tick" /\ prev.lineClears < 10 /\ s.lineClears >= 10) =>
       (s.level = 1 /\ s.changeInLevel)
  /\ (last \in Actions /\ ~(last = "Tick" /\ s.level > prev.level)) =>
       ~s.changeInLevel

\* no candidate of the wall-kick table lets piece t rotate
NoKickPasses(t, blocks) ==
  \A j \in 1..Len(KickCandidates(t)) :
    ~InBoundsAndFree(Displaced(NaiveRotation(t), KickCandidates(t)[j]), blocks)

\* C17.  Rejected operations are no-ops: a Move whose target cells are
\* occupied or out of bounds, a Rotate whose naive rotation and every
\* wall-kick candidate fail, a Hold while canHoldAgain is FALSE, and a Move,
\* Hold or Drop on an absent or collided currentBlock return a snapshot equal
\* to the input snapshot in every field.
RejectedIsNoOp ==
  /\ ( /\ IsMove(last)
       /\ Live(prev)
       /\ ~InBoundsAndFree(ShiftedBy(prev.currentBlock.cells, last),
                           prev.blocks) ) => s = prev
  /\ ( /\ last = "Rotate"
       /\ HasTetro(prev.currentBlock)
       /\ ~InBoundsAndFree(NaiveRotation(prev.currentBlock), prev.blocks)
       /\ NoKickPasses(prev.currentBlock, prev.blocks) ) => s = prev
  /\ (last = "Hold" /\ ~prev.canHoldAgain) => s = prev
  /\ ((IsMove(last) \/ last \in {"Hold", "Drop"}) /\ ~Live(prev)) => s = prev

\* C18.  Totality: every action applied to the initial snapshot or to a
\* snapshot reachable from it returns a snapshot; none throws.
Totality == ~crashed

\* C19.  Restart snapshot: the snapshot a restarted game starts from is the
\* initial snapshot (empty blocks, points, lineClears, level and blockCount 0,
\* no piece, gameEnd FALSE, canHoldAgain TRUE) with the highscore of the ended
\* game and seed = hash(seed of the ended game).
RestartSnapshot ==
  last = "Enter" =>
    s = [initialState(hash(prev.seed)) EXCEPT !.highscore = prev.highscore]

\* a game that ended with cells on the board and a high score has been
\* restarted from an empty board with the seed advanced
RestartWitness ==
  /\ last = "Enter"
  /\ prev.gameEnd
  /\ prev.blocks # <<>>
  /\ prev.highscore > 0
  /\ s.blocks = <<>>
  /\ ~s.gameEnd
  /\ s.seed = hash(prev.seed)

\* C20.  Stop on game over: once a snapshot with gameEnd = TRUE has been
\* emitted, no timer or key action is applied to it; the only event that acts
\* on it is the Enter key, which starts a new game.
StopOnGameOver == (last # "none" /\ prev.gameEnd) => last = "Enter"

\* a Tick has ended the game, Enter has started a new one, and the new game
\* has taken an action
StopOnGameOverWitness ==
  /\ last = "Tick"
  /\ prev = game
  /\ game.highscore > 0
  /\ HasTetro(s.currentBlock)

\* how often action a is among the actions of the last event
Occurrences(acts, a) == Cardinality({i \in 1..Len(acts) : acts[i] = a})

\* the action of each edge-triggered key
EdgeAction == [ArrowUp |-> "Rotate", KeyC |-> "Hold", Space |-> "Drop"]

\* C21.  Edge-triggered keys: the event in which ArrowUp, KeyC or Space goes
\* down puts at most one Rotate, Hold or Drop on actions$, and every other
\* event, the auto-repeat keydown events of the held key among them, puts
\* none there.
EdgeTriggeredKeys ==
  \A k \in SetOf(otherKeys) :
    Occurrences(emitted, EdgeAction[k]) <=
      (IF event.type = "keydown" /\ event.code = k /\ ~event.repeat THEN 1
       ELSE 0)

\* ArrowUp went down and rotated the piece, and now repeats
EdgeTriggeredWitness ==
  /\ event.type = "keydown"
  /\ event.repeat
  /\ event.code = "ArrowUp"
  /\ last = "Rotate"
  /\ prev.currentBlock # s.currentBlock

\* C22.  Level-triggered movement: every Tick that occurs while a movement
\* key is down comes with the Move of that key, and a keyboard event emits a
\* Move only for keys that are down.
LevelTriggeredMovement ==
  /\ event.type = "tick" =>
       \A k \in keysDown \cap SetOf(moveKeys) :
         keyToActionMap[k] \in SetOf(emitted)
  /\ event.type \in {"keydown", "keyup"} =>
       \A k \in SetOf(moveKeys) :
         keyToActionMap[k] \in SetOf(emitted) => k \in keysDown

\* C23.  Shape index range: for every seed that hash returns, scale(seed) is
\* one of 0..6, the indices of the seven shapes.
ShapeIndexRange ==
  last = "hash" => scale(s.seed) \in 0..(Len(TetroShapes) - 1)

\* hash has been applied to the residue that the exact congruence maps to
\* m - 1
ShapeIndexWitness ==
  /\ last = "hash"
  /\ hashExact(prev.seed) = RNG_mLess1
  /\ scale(s.seed) = 0

\* C24.  Collided lifecycle: the four cells of a collided currentBlock are in
\* blocks at the same (x, y); no Move, Rotate, Hold, Drop or Collision changes
\* the cells of a collided piece or sets its collided flag back to FALSE; the
\* next Tick replaces it with a fresh piece that is not collided.
CollidedLifecycle ==
  /\ Settled(s) =>
       \A i \in 1..Len(s.currentBlock.cells) :
         Pos(s.currentBlock.cells[i]) \in Occupied(s.blocks)
  /\ (last \in Actions \ {"Tick"} /\ Settled(prev)) =>
       /\ Settled(s)
       /\ Positions(s.currentBlock.cells) = Positions(prev.currentBlock.cells)
  /\ (last = "Tick" /\ Settled(prev)) =>
       /\ Live(s)
       /\ Range(Ids(s.currentBlock)) \cap Range(Ids(prev.currentBlock)) = {}

\* Move("y", Block.HEIGHT) applied to st returns the piece where it is
MoveDownRejected(st) ==
  Positions(Move(st, "y", HEIGHT).currentBlock.cells) =
    Positions(st.currentBlock.cells)

\* C25.  Settle condition agrees with gravity: a Collision applied to a
\* snapshot with an uncollided currentBlock marks the piece collided, appends
\* its four cells to blocks, sets seed to hash(seed) and canHoldAgain to TRUE
\* exactly when Move("y", Block.HEIGHT) applied to the same snapshot is
\* rejected; otherwise it leaves blocks, seed, canHoldAgain and the cells of
\* the piece unchanged.
SettleAgreesWithGravity ==
  (last = "Collision" /\ ~crashed /\ Live(prev)) =>
    /\ s.currentBlock.cells = prev.currentBlock.cells
    /\ IF MoveDownRejected(prev)
       THEN /\ s.currentBlock.collided
            /\ s.blocks = prev.blocks \o prev.currentBlock.cells
            /\ s.seed = hash(prev.seed)
            /\ s.canHoldAgain
       ELSE /\ ~s.currentBlock.collided
            /\ s.blocks = prev.blocks
            /\ s.seed = prev.seed
            /\ s.canHoldAgain = prev.canHoldAgain

\* a Collision has settled a piece that rests on other cells, above the floor,
\* after a Hold had used up canHoldAgain
SettleWitness ==
  /\ last = "Collision"
  /\ Live(prev)
  /\ ~prev.canHoldAgain
  /\ s.currentBlock.collided
  /\ \A i \in 1..4 : s.currentBlock.cells[i].y < CANVAS_HEIGHT - HEIGHT

\* the positions of cells moved straight down by d
Lowered(cells, d) == [i \in 1..Len(cells) |-> <<cells[i].x, cells[i].y + d>>]

\* the piece can fall by d: it is in bounds and free at every amount up to d
CanFall(cells, blocks, d) ==
  \A k \in 0..(d \div HEIGHT) :
    InBoundsAndFree(Lowered(cells, k * HEIGHT), blocks)

\* d is where repeated accepted Move("y", Block.HEIGHT) leave the piece
IsLanding(cells, blocks, d) ==
  CanFall(cells, blocks, d) /\ ~CanFall(cells, blocks, d + HEIGHT)

FallDistances == {k * HEIGHT : k \in 0..(CANVAS_HEIGHT \div HEIGHT)}

\* C26.  Ghost is the landing position: after every Tick that does not set
\* gameEnd, cell i of ghostBlock is cell i of currentBlock moved straight down
\* by the largest d >= 0 such that the piece moved by every amount from 0 to d
\* is in bounds and overlaps no cell of blocks.
GhostIsLanding ==
  (last = "Tick" /\ ~s.gameEnd) =>
    \E d \in FallDistances :
      /\ IsLanding(s.currentBlock.cells, s.blocks, d)
      /\ Positions(s.ghostBlock.cells) = Lowered(s.currentBlock.cells, d)

\* C27.  Ghost safety: in every snapshot returned by a Tick that does not set
\* gameEnd no cell of ghostBlock has the (x, y) of a cell of blocks, and every
\* ghost cell has 0 <= x < CANVAS_WIDTH and y < CANVAS_HEIGHT.
GhostSafety ==
  (last = "Tick" /\ ~s.gameEnd) =>
    InBoundsAndFree(Positions(s.ghostBlock.cells), s.blocks)

\* C28.  Drop falls straight down: a Drop that takes effect commits the cells
\* the piece had immediately before the Drop moved by one vertical offset
\* d >= 0 (same columns, same layout), none of them on a cell that was already
\* in blocks.
DropFallsStraight ==
  (last = "Drop" /\ Live(prev)) =>
    /\ \E d \in FallDistances :
         Positions(s.currentBlock.cells) = Lowered(prev.currentBlock.cells, d)
    /\ \A i \in 1..4 : Pos(s.currentBlock.cells[i]) \notin Occupied(prev.blocks)

\* C29.  Live piece stays legal: in every reachable snapshot with gameEnd false
\* and an uncollided currentBlock, every cell of currentBlock has
\* 0 <= x < CANVAS_WIDTH and y < CANVAS_HEIGHT and no cell of currentBlock has
\* the (x, y) of a cell of blocks.
LivePieceLegal ==
  (~crashed /\ ~s.gameEnd /\ Live(s)) =>
    InBoundsAndFree(Positions(s.currentBlock.cells), s.blocks)

\* C30.  Tick is not gravity: a Tick applied to a snapshot with an uncollided
\* currentBlock leaves currentBlock, nextBlock, heldBlock, blocks, blockCount,
\* seed, points, lineClears, level, highscore and canHoldAgain unchanged; it
\* may change only ghostBlock, gameEnd and changeInLevel.
TickIsNotGravity ==
  (last = "Tick" /\ Live(prev)) =>
    s = [prev EXCEPT !.ghostBlock = s.ghostBlock,
                     !.gameEnd = s.gameEnd,
                     !.changeInLevel = s.changeInLevel]

\* a Tick has found a falling piece with room below it, has left it where it
\* was and has given the snapshot another ghost
TickWitness ==
  /\ last = "Tick"
  /\ Live(prev)
  /\ Move(prev, "y", HEIGHT).currentBlock.cells # prev.currentBlock.cells
  /\ s.currentBlock.cells = prev.currentBlock.cells
  /\ s.ghostBlock # prev.ghostBlock

\* the folds of actions$ that are subscribed
ActiveFolds == {i \in 1..Len(folds) : folds[i].subscribed}

\* the games started by restart listener r
StartedBy(r) == {i \in 1..Len(folds) : folds[i].restartSub = r}

\* C31.  Single active game: at any time at most one action stream is being
\* folded; after a game over any number of Enter key presses start exactly
\* one new game; and the restart listener is removed once the new game is
\* running (has handed a snapshot to its subscriber).
SingleActiveGame ==
  /\ Cardinality(ActiveFolds) <= 1
  /\ \A r \in 1..Len(restartSubs) : Cardinality(StartedBy(r)) <= 1
  /\ \A i \in 1..Len(folds) :
       (folds[i].restartSub # 0 /\ folds[i].rendered)
         => ~restartSubs[folds[i].restartSub].subscribed

\* C32.  Game over is terminal in the engine: gameEnd becomes true only by a
\* Tick whose active piece overlaps a cell of blocks, and every Tick, Move,
\* Rotate, Hold, Drop or Collision applied to a snapshot with gameEnd true
\* returns a snapshot with gameEnd true.
GameOverIsTerminal ==
  (last \in Actions /\ ~crashed) =>
    /\ (~prev.gameEnd /\ s.gameEnd) =>
         /\ last = "Tick"
         /\ isBlockSpawningOnOtherBlocks(s.currentBlock, s)
    /\ prev.gameEnd => s.gameEnd

\* no id occurs twice in the sequence
DistinctIds(cells) ==
  \A i, j \in 1..Len(cells) : i # j => cells[i].id # cells[j].id

\* the cells of a piece, none for a piece that is absent
CellsOf(t) == IF HasTetro(t) THEN t.cells ELSE <<>>

\* the cells whose ids must differ: blocks, the falling piece, the preview,
\* the held piece and the ghost
IdBearers(st) ==
  st.blocks \o (IF Live(st) THEN st.currentBlock.cells ELSE <<>>)
    \o CellsOf(st.nextBlock) \o CellsOf(st.heldBlock) \o CellsOf(st.ghostBlock)

\* C33.  Cell ids never collide: in every reachable snapshot the ids of the
\* cells of blocks are pairwise distinct, and the ids of the uncollided
\* currentBlock, of nextBlock, of heldBlock and of ghostBlock are distinct from
\* each other and from the ids in blocks; Move, Rotate and Drop keep the four
\* ids of the current piece.
CellIdsNeverCollide ==
  ~crashed =>
    /\ DistinctIds(IdBearers(s))
    /\ (last \in {"ArrowLeft", "ArrowRight", "ArrowDown", "Rotate", "Drop"}
          /\ HasTetro(prev.currentBlock))
         => Ids(s.currentBlock) = Ids(prev.currentBlock)

====
